---- MODULE Spec2Model ----
(***************************************************************************)
(* Model of the Mergington High School activities API (src/src/app.py):   *)
(* the two in-memory stores, the request handlers that mutate them and    *)
(* the two sorted views.                                                   *)
(***************************************************************************)
EXTENDS Integers, Sequences, FiniteSets, TLC

VARIABLES
  activities,          \* app.py:24  name -> activity record
  activity_documents,  \* app.py:82  name -> sequence of document records
  response,            \* the last request served and what it returned
  threads              \* worker threads of the concurrent specification

vars == <<activities, activity_documents, response, threads>>

----------------------------------------------------------------------------
(* Seed data *)

\* Insertion order of the keys of the activities dict (dicts iterate in
\* insertion order; no handler adds or deletes a key).
ActivityOrder ==
  <<"Chess Club", "Programming Class", "Gym Class", "Soccer Team",
    "Basketball Team", "Art Club", "Drama Club", "Math Club", "Debate Team">>

ActivityNames == {ActivityOrder[i] : i \in 1..Len(ActivityOrder)}

activities_seed ==
  [name \in ActivityNames |->
     CASE name = "Chess Club" ->
          [description |-> "Learn strategies and compete in chess tournaments",
           schedule |-> "Fridays, 3:30 PM - 5:00 PM",
           max_participants |-> 12,
           participants |-> <<"michael@mergington.edu", "daniel@mergington.edu">>]
       [] name = "Programming Class" ->
          [description |-> "Learn programming fundamentals and build software projects",
           schedule |-> "Tuesdays and Thursdays, 3:30 PM - 4:30 PM",
           max_participants |-> 20,
           participants |-> <<"emma@mergington.edu", "sophia@mergington.edu">>]
       [] name = "Gym Class" ->
          [description |-> "Physical education and sports activities",
           schedule |-> "Mondays, Wednesdays, Fridays, 2:00 PM - 3:00 PM",
           max_participants |-> 30,
           participants |-> <<"john@mergington.edu", "olivia@mergington.edu">>]
       [] name = "Soccer Team" ->
          [description |-> "Join the school soccer team and compete in matches",
           schedule |-> "Tuesdays and Thursdays, 4:00 PM - 5:30 PM",
           max_participants |-> 22,
           participants |-> <<"liam@mergington.edu", "noah@mergington.edu">>]
       [] name = "Basketball Team" ->
          [description |-> "Practice and play basketball with the school team",
           schedule |-> "Wednesdays and Fridays, 3:30 PM - 5:00 PM",
           max_participants |-> 15,
           participants |-> <<"ava@mergington.edu", "mia@mergington.edu">>]
       [] name = "Art Club" ->
          [description |-> "Explore your creativity through painting and drawing",
           schedule |-> "Thursdays, 3:30 PM - 5:00 PM",
           max_participants |-> 15,
           participants |-> <<"amelia@mergington.edu", "harper@mergington.edu">>]
       [] name = "Drama Club" ->
          [description |-> "Act, direct, and produce plays and performances",
           schedule |-> "Mondays and Wednesdays, 4:00 PM - 5:30 PM",
           max_participants |-> 20,
           participants |-> <<"ella@mergington.edu", "scarlett@mergington.edu">>]
       [] name = "Math Club" ->
          [description |-> "Solve challenging problems and participate in math competitions",
           schedule |-> "Tuesdays, 3:30 PM - 4:30 PM",
           max_participants |-> 10,
           participants |-> <<"james@mergington.edu", "benjamin@mergington.edu">>]
       [] name = "Debate Team" ->
          [description |-> "Develop public speaking and argumentation skills",
           schedule |-> "Fridays, 4:00 PM - 5:30 PM",
           max_participants |-> 12,
           participants |-> <<"charlotte@mergington.edu", "henry@mergington.edu">>]]

----------------------------------------------------------------------------
(* Python values *)

\* None is the empty tuple and an int score s is <<s>>.
None == <<>>

\* Code points of the strings the model uses; str comparison in Python is
\* lexicographic on code points.
CodePoints(s) ==
  CASE s = "Chess Club" -> <<67, 104, 101, 115, 115, 32, 67, 108, 117, 98>>
    [] s = "Programming Class" -> <<80, 114, 111, 103, 114, 97, 109, 109, 105, 110, 103, 32, 67, 108, 97, 115, 115>>
    [] s = "Gym Class" -> <<71, 121, 109, 32, 67, 108, 97, 115, 115>>
    [] s = "Soccer Team" -> <<83, 111, 99, 99, 101, 114, 32, 84, 101, 97, 109>>
    [] s = "Basketball Team" -> <<66, 97, 115, 107, 101, 116, 98, 97, 108, 108, 32, 84, 101, 97, 109>>
    [] s = "Art Club" -> <<65, 114, 116, 32, 67, 108, 117, 98>>
    [] s = "Drama Club" -> <<68, 114, 97, 109, 97, 32, 67, 108, 117, 98>>
    [] s = "Math Club" -> <<77, 97, 116, 104, 32, 67, 108, 117, 98>>
    [] s = "Debate Team" -> <<68, 101, 98, 97, 116, 101, 32, 84, 101, 97, 109>>
    [] s = "Robotics Club" -> <<82, 111, 98, 111, 116, 105, 99, 115, 32, 67, 108, 117, 98>>
    [] s = "michael@mergington.edu" -> <<109, 105, 99, 104, 97, 101, 108, 64, 109, 101, 114, 103, 105, 110, 103, 116, 111, 110, 46, 101, 100, 117>>
    [] s = "daniel@mergington.edu" -> <<100, 97, 110, 105, 101, 108, 64, 109, 101, 114, 103, 105, 110, 103, 116, 111, 110, 46, 101, 100, 117>>
    [] s = "emma@mergington.edu" -> <<101, 109, 109, 97, 64, 109, 101, 114, 103, 105, 110, 103, 116, 111, 110, 46, 101, 100, 117>>
    [] s = "sophia@mergington.edu" -> <<115, 111, 112, 104, 105, 97, 64, 109, 101, 114, 103, 105, 110, 103, 116, 111, 110, 46, 101, 100, 117>>
    [] s = "john@mergington.edu" -> <<106, 111, 104, 110, 64, 109, 101, 114, 103, 105, 110, 103, 116, 111, 110, 46, 101, 100, 117>>
    [] s = "olivia@mergington.edu" -> <<111, 108, 105, 118, 105, 97, 64, 109, 101, 114, 103, 105, 110, 103, 116, 111, 110, 46, 101, 100, 117>>
    [] s = "liam@mergington.edu" -> <<108, 105, 97, 109, 64, 109, 101, 114, 103, 105, 110, 103, 116, 111, 110, 46, 101, 100, 117>>
    [] s = "noah@mergington.edu" -> <<110, 111, 97, 104, 64, 109, 101, 114, 103, 105, 110, 103, 116, 111, 110, 46, 101, 100, 117>>
    [] s = "ava@mergington.edu" -> <<97, 118, 97, 64, 109, 101, 114, 103, 105, 110, 103, 116, 111, 110, 46, 101, 100, 117>>
    [] s = "mia@mergington.edu" -> <<109, 105, 97, 64, 109, 101, 114, 103, 105, 110, 103, 116, 111, 110, 46, 101, 100, 117>>
    [] s = "amelia@mergington.edu" -> <<97, 109, 101, 108, 105, 97, 64, 109, 101, 114, 103, 105, 110, 103, 116, 111, 110, 46, 101, 100, 117>>
    [] s = "harper@mergington.edu" -> <<104, 97, 114, 112, 101, 114, 64, 109, 101, 114, 103, 105, 110, 103, 116, 111, 110, 46, 101, 100, 117>>
    [] s = "ella@mergington.edu" -> <<101, 108, 108, 97, 64, 109, 101, 114, 103, 105, 110, 103, 116, 111, 110, 46, 101, 100, 117>>
    [] s = "scarlett@mergington.edu" -> <<115, 99, 97, 114, 108, 101, 116, 116, 64, 109, 101, 114, 103, 105, 110, 103, 116, 111, 110, 46, 101, 100, 117>>
    [] s = "james@mergington.edu" -> <<106, 97, 109, 101, 115, 64, 109, 101, 114, 103, 105, 110, 103, 116, 111, 110, 46, 101, 100, 117>>
    [] s = "benjamin@mergington.edu" -> <<98, 101, 110, 106, 97, 109, 105, 110, 64, 109, 101, 114, 103, 105, 110, 103, 116, 111, 110, 46, 101, 100, 117>>
    [] s = "charlotte@mergington.edu" -> <<99, 104, 97, 114, 108, 111, 116, 116, 101, 64, 109, 101, 114, 103, 105, 110, 103, 116, 111, 110, 46, 101, 100, 117>>
    [] s = "henry@mergington.edu" -> <<104, 101, 110, 114, 121, 64, 109, 101, 114, 103, 105, 110, 103, 116, 111, 110, 46, 101, 100, 117>>
    [] s = "ada@mergington.edu" -> <<97, 100, 97, 64, 109, 101, 114, 103, 105, 110, 103, 116, 111, 110, 46, 101, 100, 117>>
    [] s = "s1@mergington.edu" -> <<115, 49, 64, 109, 101, 114, 103, 105, 110, 103, 116, 111, 110, 46, 101, 100, 117>>
    [] s = "s2@mergington.edu" -> <<115, 50, 64, 109, 101, 114, 103, 105, 110, 103, 116, 111, 110, 46, 101, 100, 117>>
    [] s = "s3@mergington.edu" -> <<115, 51, 64, 109, 101, 114, 103, 105, 110, 103, 116, 111, 110, 46, 101, 100, 117>>
    [] s = "s4@mergington.edu" -> <<115, 52, 64, 109, 101, 114, 103, 105, 110, 103, 116, 111, 110, 46, 101, 100, 117>>
    [] s = "s5@mergington.edu" -> <<115, 53, 64, 109, 101, 114, 103, 105, 110, 103, 116, 111, 110, 46, 101, 100, 117>>
    [] s = "s6@mergington.edu" -> <<115, 54, 64, 109, 101, 114, 103, 105, 110, 103, 116, 111, 110, 46, 101, 100, 117>>
    [] s = "s7@mergington.edu" -> <<115, 55, 64, 109, 101, 114, 103, 105, 110, 103, 116, 111, 110, 46, 101, 100, 117>>
    [] s = "s8@mergington.edu" -> <<115, 56, 64, 109, 101, 114, 103, 105, 110, 103, 116, 111, 110, 46, 101, 100, 117>>
    [] s = "s10@mergington.edu" -> <<115, 49, 48, 64, 109, 101, 114, 103, 105, 110, 103, 116, 111, 110, 46, 101, 100, 117>>
    [] s = "s9@mergington.edu" -> <<115, 57, 64, 109, 101, 114, 103, 105, 110, 103, 116, 111, 110, 46, 101, 100, 117>>

RECURSIVE SeqLess(_, _)
SeqLess(s, t) ==
  IF t = <<>> THEN FALSE
  ELSE IF s = <<>> THEN TRUE
  ELSE IF Head(s) # Head(t) THEN Head(s) < Head(t)
  ELSE SeqLess(Tail(s), Tail(t))

\* s < t on Python strings
StrLess(s, t) == SeqLess(CodePoints(s), CodePoints(t))

\* x in list
Contains(list, x) == \E i \in 1..Len(list) : list[i] = x

\* Mutant of ListRemove: overwrites the first occurrence with the last
\* element and drops the last slot.
ListSwapRemove(list, x) ==
  LET i == CHOOSE k \in 1..Len(list) :
             list[k] = x /\ \A j \in 1..(k - 1) : list[j] # x
      n == Len(list)
  IN  IF i = n THEN SubSeq(list, 1, n - 1)
      ELSE SubSeq([list EXCEPT ![i] = list[n]], 1, n - 1)

\* list.remove(x): deletes the first occurrence of x (x is in the list)
ListRemove(list, x) ==
  LET i == CHOOSE k \in 1..Len(list) :
             list[k] = x /\ \A j \in 1..(k - 1) : list[j] # x
  IN  SubSeq(list, 1, i - 1) \o SubSeq(list, i + 1, Len(list))

\* activity_documents.get(activity_name, [])
DocsGet(docs, activity_name) ==
  IF activity_name \in DOMAIN docs THEN docs[activity_name] ELSE <<>>

\* activity_documents.setdefault(activity_name, []).append(doc)
DocsAppend(docs, activity_name, doc) ==
  IF activity_name \in DOMAIN docs
    THEN [docs EXCEPT ![activity_name] = Append(@, doc)]
    ELSE docs @@ (activity_name :> <<doc>>)

\* A worker thread that is serving no request
Idle == [pc |-> "idle", op |-> "none", activity_name |-> "none",
         email |-> "none", status |-> 0]

Resp(op, args, status, body) ==
  [op |-> op, args |-> args, status |-> status, body |-> body]

\* raise HTTPException(status_code=..., detail=...): the stores keep the
\* value they had when the exception was raised.
HTTPException(op, args, status, detail) ==
  /\ response' = Resp(op, args, status, detail)
  /\ UNCHANGED <<activities, activity_documents, threads>>

----------------------------------------------------------------------------
(* Inputs of the requests *)

MaxDocs == 2

\* Activities named in signup, unregister and the per-activity queries
ReqActivities == {"Chess Club", "Robotics Club"}
\* Activities named in upload and verify
DocActivities == {"Chess Club", "Math Club", "Robotics Club"}
ReqEmails == {"michael@mergington.edu", "ada@mergington.edu"}
Filenames == {"cert.pdf", "medal.png"}
\* The form fields of an upload request
UploadInputs ==
  { [email |-> "michael@mergington.edu", filename |-> "cert.pdf",
     content_type |-> "application/pdf", score |-> -1],
    [email |-> "michael@mergington.edu", filename |-> "medal.png",
     content_type |-> "image/png", score |-> 1] }
\* The threadpool workers that serve the requests of the concurrent
\* specification, and the requests they are given
Threads == {"worker-1", "worker-2"}
ConcActivities == {"Chess Club", "Robotics Club"}
ConcEmails == {"daniel@mergington.edu", "ada@mergington.edu"}
\* Students who ask, in this order, to join the activities of CapActivities
CapRoster ==
  <<"s1@mergington.edu", "s2@mergington.edu", "s3@mergington.edu",
    "s4@mergington.edu", "s5@mergington.edu", "s6@mergington.edu",
    "s7@mergington.edu", "s8@mergington.edu", "s9@mergington.edu",
    "s10@mergington.edu">>
CapActivities == {"Math Club"}
CapLeavers == {"james@mergington.edu", "s1@mergington.edu"}
\* sort_by values of GET /activities/sorted; "capacity" is outside the enum
SortByActivities == {"name", "participants", "score", "capacity"}
SortByParticipants == {"name", "score"}

RECURSIVE SumLen(_, _)
SumLen(f, S) ==
  IF S = {} THEN 0
  ELSE LET k == CHOOSE x \in S : TRUE IN Len(f[k]) + SumLen(f, S \ {k})

TotalDocs == SumLen(activity_documents, DOMAIN activity_documents)

----------------------------------------------------------------------------
(* Handlers *)

Init ==
  /\ activities = activities_seed
  /\ activity_documents = <<>>
  /\ response = Resp("start", <<>>, 0, <<>>)
  /\ threads = [t \in Threads |-> Idle]

\* GET /
root ==
  /\ response' = Resp("root", <<>>, 307, "/static/index.html")
  /\ UNCHANGED <<activities, activity_documents, threads>>

\* GET /activities
get_activities ==
  /\ response' = Resp("get_activities", <<>>, 200, activities)
  /\ UNCHANGED <<activities, activity_documents, threads>>

\* Mutant of signup_for_activity: the membership test is missing.
signup_no_check(activity_name, email) ==
  LET args == <<activity_name, email>> IN
  IF activity_name \notin DOMAIN activities
    THEN HTTPException("signup", args, 404, "Activity not found")
  ELSE
    /\ activities' = [activities EXCEPT
                        ![activity_name].participants = Append(@, email)]
    /\ response' = Resp("signup", args, 200,
                        <<"Signed up", email, "for", activity_name>>)
    /\ UNCHANGED <<activity_documents, threads>>

\* Mutant of signup_for_activity: a full activity turns the student away.
signup_capped(activity_name, email) ==
  LET args == <<activity_name, email>> IN
  IF activity_name \notin DOMAIN activities
    THEN HTTPException("signup", args, 404, "Activity not found")
  ELSE IF Contains(activities[activity_name].participants, email)
    THEN HTTPException("signup", args, 400, "Student is already signed up")
  ELSE IF Len(activities[activity_name].participants)
            >= activities[activity_name].max_participants
    THEN HTTPException("signup", args, 400, "Activity is full")
  ELSE
    /\ activities' = [activities EXCEPT
                        ![activity_name].participants = Append(@, email)]
    /\ response' = Resp("signup", args, 200,
                        <<"Signed up", email, "for", activity_name>>)
    /\ UNCHANGED <<activity_documents, threads>>

\* POST /activities/{activity_name}/signup
signup_for_activity(activity_name, email) ==
  LET args == <<activity_name, email>> IN
  IF activity_name \notin DOMAIN activities
    THEN HTTPException("signup", args, 404, "Activity not found")
  ELSE IF Contains(activities[activity_name].participants, email)
    THEN HTTPException("signup", args, 400, "Student is already signed up")
  ELSE
    /\ activities' = [activities EXCEPT
                        ![activity_name].participants = Append(@, email)]
    /\ response' = Resp("signup", args, 200,
                        <<"Signed up", email, "for", activity_name>>)
    /\ UNCHANGED <<activity_documents, threads>>

\* DELETE /activities/{activity_name}/unregister
unregister_from_activity(activity_name, email) ==
  LET args == <<activity_name, email>> IN
  IF activity_name \notin DOMAIN activities
    THEN HTTPException("unregister", args, 404, "Activity not found")
  ELSE IF ~Contains(activities[activity_name].participants, email)
    THEN HTTPException("unregister", args, 400,
                       "Student is not signed up for this activity")
  ELSE
    /\ activities' = [activities EXCEPT
                        ![activity_name].participants = ListRemove(@, email)]
    /\ response' = Resp("unregister", args, 200,
                        <<"Unregistered", email, "from", activity_name>>)
    /\ UNCHANGED <<activity_documents, threads>>

\* POST /activities/{activity_name}/upload
upload_document(activity_name, email, filename, content_type, score) ==
  LET args == <<activity_name, email, filename, content_type, score>>
      doc == [email |-> email, filename |-> filename,
              content_type |-> content_type, score |-> score,
              verified |-> FALSE]
  IN
  IF activity_name \notin DOMAIN activities
    THEN HTTPException("upload", args, 404, "Activity not found")
  ELSE
    /\ activity_documents' = DocsAppend(activity_documents, activity_name, doc)
    /\ response' = Resp("upload", args, 200,
                        <<"Uploaded", filename, "for", email, "in",
                          activity_name>>)
    /\ UNCHANGED <<activities, threads>>

\* GET /activities/{activity_name}/documents
get_activity_documents(activity_name) ==
  IF activity_name \notin DOMAIN activities
    THEN HTTPException("documents", <<activity_name>>, 404,
                       "Activity not found")
  ELSE
    /\ response' = Resp("documents", <<activity_name>>, 200,
                        DocsGet(activity_documents, activity_name))
    /\ UNCHANGED <<activities, activity_documents, threads>>

\* Mutant of FirstMatch: the loop keeps going and ends on the last match.
LastMatch(docs, email, filename) ==
  LET hits == {i \in 1..Len(docs) :
                 docs[i].email = email /\ docs[i].filename = filename}
  IN  IF hits = {} THEN 0
      ELSE CHOOSE i \in hits : \A j \in hits : j <= i

\* Index of the first document of docs with this email and filename, 0 if
\* the loop of verify_document runs to its end.
FirstMatch(docs, email, filename) ==
  LET hits == {i \in 1..Len(docs) :
                 docs[i].email = email /\ docs[i].filename = filename}
  IN  IF hits = {} THEN 0
      ELSE CHOOSE i \in hits : \A j \in hits : i <= j

\* Mutant of verify_document: the documents are fetched with setdefault, so
\* a request that finds nothing leaves an empty list behind.
verify_setdefault(activity_name, email, filename) ==
  LET args == <<activity_name, email, filename>>
      docs == DocsGet(activity_documents, activity_name)
      i == FirstMatch(docs, email, filename)
      created == IF activity_name \in DOMAIN activity_documents
                   THEN activity_documents
                   ELSE activity_documents @@ (activity_name :> <<>>)
  IN
  IF i = 0
    THEN /\ response' = Resp("verify", args, 404, "Document not found")
         /\ activity_documents' = created
         /\ UNCHANGED <<activities, threads>>
  ELSE
    /\ activity_documents' = [created EXCEPT ![activity_name][i].verified = TRUE]
    /\ response' = Resp("verify", args, 200,
                        <<"Verified", filename, "for", email, "in",
                          activity_name>>)
    /\ UNCHANGED <<activities, threads>>

\* POST /activities/{activity_name}/verify
verify_document(activity_name, email, filename) ==
  LET args == <<activity_name, email, filename>>
      docs == DocsGet(activity_documents, activity_name)
      i == FirstMatch(docs, email, filename)
  IN
  IF i = 0
    THEN HTTPException("verify", args, 404, "Document not found")
  ELSE
    /\ activity_documents' =
         [activity_documents EXCEPT ![activity_name][i].verified = TRUE]
    /\ response' = Resp("verify", args, 200,
                        <<"Verified", filename, "for", email, "in",
                          activity_name>>)
    /\ UNCHANGED <<activities, threads>>

----------------------------------------------------------------------------
(* Sorting *)

\* The elements of a list
Elements(list) == {list[i] : i \in 1..Len(list)}

\* list.sort(key=..., reverse=...): a stable sort. before[<<x, y>>] says
\* that the key of x orders strictly before the key of y in the direction
\* asked for; elements neither of which is before the other keep their
\* order.
StableSort(list, before) ==
  LET Insert(sorted, x) ==
        LET later == {i \in 1..Len(sorted) : before[<<x, sorted[i]>>]}
            p == IF later = {} THEN Len(sorted) + 1
                 ELSE CHOOSE i \in later : \A j \in later : i <= j
        IN  SubSeq(sorted, 1, p - 1) \o <<x>> \o SubSeq(sorted, p, Len(sorted))
      run[n \in 0..Len(list)] ==
        IF n = 0 THEN <<>> ELSE Insert(run[n - 1], list[n])
  IN  run[Len(list)]

RECURSIVE SumSeq(_)
SumSeq(s) == IF s = <<>> THEN 0 ELSE Head(s) + SumSeq(Tail(s))

\* Mutant of avg_score: the verified flag is not looked at.
avg_score_all(docs, activity_name) ==
  LET d == DocsGet(docs, activity_name)
      values == [i \in 1..Len(d) |-> d[i].score]
  IN  IF Len(values) > 0 THEN <<SumSeq(values), Len(values)>> ELSE <<0, 1>>

\* avg_score: the quotient sum(scores) / len(scores) is kept as the pair
\* <<sum, len>>; 0 is <<0, 1>>. For the scores of the model the float
\* quotients compare as the exact fractions do.
avg_score(docs, activity_name) ==
  LET d == DocsGet(docs, activity_name)
      scores == SelectSeq([i \in 1..Len(d) |-> d[i]],
                          LAMBDA doc : doc.verified)
      values == [i \in 1..Len(scores) |-> scores[i].score]
  IN  IF Len(values) > 0 THEN <<SumSeq(values), Len(values)>> ELSE <<0, 1>>

\* p < q on the quotients
QuotLess(p, q) == p[1] * q[2] < q[1] * p[2]

\* list(activities.items()), each item already in the shape of the
\* returned {"name": k, **v}
ActivityItems(acts) ==
  [i \in 1..Len(ActivityOrder) |->
     [name |-> ActivityOrder[i],
      description |-> acts[ActivityOrder[i]].description,
      schedule |-> acts[ActivityOrder[i]].schedule,
      max_participants |-> acts[ActivityOrder[i]].max_participants,
      participants |-> acts[ActivityOrder[i]].participants]]

\* The key= lambdas of get_sorted_activities, compared with <
ActivityKeyLess(docs, sort_by, x, y) ==
  IF sort_by = "name" THEN StrLess(x.name, y.name)
  ELSE IF sort_by = "participants"
    THEN Len(x.participants) < Len(y.participants)
  ELSE QuotLess(avg_score(docs, x.name), avg_score(docs, y.name))

Reverse(list) == [i \in 1..Len(list) |-> list[Len(list) + 1 - i]]

\* Mutant of SortedActivities: sorts ascending, then reverses the list
\* when descending is asked for.
SortedActivitiesReversed(acts, docs, sort_by, descending) ==
  LET items == ActivityItems(acts)
      before == [p \in Elements(items) \X Elements(items) |->
                   ActivityKeyLess(docs, sort_by, p[1], p[2])]
      ascending == StableSort(items, before)
  IN  IF sort_by \in {"name", "participants", "score"}
        THEN IF descending THEN Reverse(ascending) ELSE ascending
        ELSE items

SortedActivities(acts, docs, sort_by, descending) ==
  LET items == ActivityItems(acts)
      before == [p \in Elements(items) \X Elements(items) |->
                   IF descending
                     THEN ActivityKeyLess(docs, sort_by, p[2], p[1])
                     ELSE ActivityKeyLess(docs, sort_by, p[1], p[2])]
  IN  IF sort_by \in {"name", "participants", "score"}
        THEN StableSort(items, before)
        ELSE items

\* GET /activities/sorted
get_sorted_activities(sort_by, descending) ==
  /\ response' = Resp("sorted_activities", <<sort_by, descending>>, 200,
                      SortedActivities(activities, activity_documents,
                                       sort_by, descending))
  /\ UNCHANGED <<activities, activity_documents, threads>>

\* Mutant of ParticipantScore: the verified flag is not looked at.
ParticipantScoreAny(docs, email) ==
  LET hits == {i \in 1..Len(docs) : docs[i].email = email}
  IN  IF hits = {} THEN None
      ELSE <<docs[CHOOSE i \in hits : \A j \in hits : i <= j].score>>

\* The inner loop of get_sorted_participants: the score of the first
\* document with this email that is verified, None if the loop ends.
ParticipantScore(docs, email) ==
  LET hits == {i \in 1..Len(docs) : docs[i].email = email /\ docs[i].verified}
  IN  IF hits = {} THEN None
      ELSE <<docs[CHOOSE i \in hits : \A j \in hits : i <= j].score>>

ParticipantInfo(participants, docs) ==
  [i \in 1..Len(participants) |->
     [email |-> participants[i],
      score |-> ParticipantScore(docs, participants[i])]]

\* x["score"] if x["score"] is not None else 0
ScoreKey(x) == IF x.score # None THEN x.score[1] ELSE 0

\* The key= lambdas of get_sorted_participants, compared with <
ParticipantKeyLess(sort_by, x, y) ==
  IF sort_by = "name" THEN StrLess(x.email, y.email)
  ELSE ScoreKey(x) < ScoreKey(y)

SortedParticipants(acts, docs, activity_name, sort_by, descending) ==
  LET info == ParticipantInfo(acts[activity_name].participants,
                              DocsGet(docs, activity_name))
      before == [p \in Elements(info) \X Elements(info) |->
                   IF descending THEN ParticipantKeyLess(sort_by, p[2], p[1])
                   ELSE ParticipantKeyLess(sort_by, p[1], p[2])]
  IN  IF sort_by \in {"name", "score"}
        THEN StableSort(info, before)
        ELSE info

\* GET /activities/{activity_name}/participants/sorted
get_sorted_participants(activity_name, sort_by, descending) ==
  LET args == <<activity_name, sort_by, descending>> IN
  IF activity_name \notin DOMAIN activities
    THEN HTTPException("sorted_participants", args, 404, "Activity not found")
  ELSE
    /\ response' = Resp("sorted_participants", args, 200,
                        SortedParticipants(activities, activity_documents,
                                           activity_name, sort_by, descending))
    /\ UNCHANGED <<activities, activity_documents, threads>>

----------------------------------------------------------------------------
(* Requests served one at a time *)

Next ==
  \/ root
  \/ get_activities
  \/ \E a \in ReqActivities, e \in ReqEmails : signup_for_activity(a, e)
  \/ \E a \in ReqActivities, e \in ReqEmails : unregister_from_activity(a, e)
  \/ \E a \in DocActivities, u \in UploadInputs :
       /\ TotalDocs < MaxDocs
       /\ upload_document(a, u.email, u.filename, u.content_type, u.score)
  \/ \E a \in ReqActivities : get_activity_documents(a)
  \/ \E a \in DocActivities, e \in ReqEmails, f \in Filenames :
       verify_document(a, e, f)
  \/ \E s \in SortByActivities, d \in BOOLEAN : get_sorted_activities(s, d)
  \/ \E a \in ReqActivities, s \in SortByParticipants, d \in BOOLEAN :
       get_sorted_participants(a, s, d)

Spec == Init /\ [][Next]_vars

----------------------------------------------------------------------------
(* Enrolment beyond max_participants: the students of CapRoster ask to join
   in roster order, and members may leave. *)

NextCap ==
  \/ \E a \in CapActivities, i \in 1..Len(CapRoster) :
       /\ IF i = 1 THEN TRUE
          ELSE Contains(activities[a].participants, CapRoster[i - 1])
       /\ signup_for_activity(a, CapRoster[i])
  \/ \E a \in CapActivities, e \in CapLeavers : unregister_from_activity(a, e)

SpecCap == Init /\ [][NextCap]_vars

----------------------------------------------------------------------------
(* Requests served concurrently. The handlers are plain def functions, which
   the framework runs on threadpool workers; no handler takes a lock, so
   another worker may run between the membership test and the list
   mutation of signup_for_activity and unregister_from_activity. *)

Finish(t, op, status, body) ==
  /\ threads' = [threads EXCEPT ![t].pc = "idle", ![t].status = status]
  /\ response' = Resp(op, <<threads[t].activity_name, threads[t].email>>,
                      status, body)

\* A worker is handed a signup or unregister request
accept(t, op, activity_name, email) ==
  /\ threads[t].pc = "idle"
  /\ threads' = [threads EXCEPT ![t] =
                   [pc |-> "check", op |-> op, activity_name |-> activity_name,
                    email |-> email, status |-> 0]]
  /\ UNCHANGED <<activities, activity_documents, response>>

\* signup_for_activity up to the membership test
signup_check(t) ==
  LET a == threads[t].activity_name
      e == threads[t].email
  IN
  /\ threads[t].pc = "check"
  /\ threads[t].op = "signup"
  /\ UNCHANGED <<activities, activity_documents>>
  /\ IF a \notin DOMAIN activities
       THEN Finish(t, "signup", 404, "Activity not found")
     ELSE IF Contains(activities[a].participants, e)
       THEN Finish(t, "signup", 400, "Student is already signed up")
     ELSE /\ threads' = [threads EXCEPT ![t].pc = "append"]
          /\ UNCHANGED response

\* activity["participants"].append(email) and the return
signup_append(t) ==
  LET a == threads[t].activity_name
      e == threads[t].email
  IN
  /\ threads[t].pc = "append"
  /\ activities' = [activities EXCEPT ![a].participants = Append(@, e)]
  /\ Finish(t, "signup", 200, <<"Signed up", e, "for", a>>)
  /\ UNCHANGED activity_documents

\* unregister_from_activity up to the membership test
unregister_check(t) ==
  LET a == threads[t].activity_name
      e == threads[t].email
  IN
  /\ threads[t].pc = "check"
  /\ threads[t].op = "unregister"
  /\ UNCHANGED <<activities, activity_documents>>
  /\ IF a \notin DOMAIN activities
       THEN Finish(t, "unregister", 404, "Activity not found")
     ELSE IF ~Contains(activities[a].participants, e)
       THEN Finish(t, "unregister", 400,
                   "Student is not signed up for this activity")
     ELSE /\ threads' = [threads EXCEPT ![t].pc = "remove"]
          /\ UNCHANGED response

\* activity["participants"].remove(email) and the return; list.remove
\* raises ValueError when the email is no longer in the list, which the
\* framework answers with 500.
unregister_remove(t) ==
  LET a == threads[t].activity_name
      e == threads[t].email
  IN
  /\ threads[t].pc = "remove"
  /\ UNCHANGED activity_documents
  /\ IF Contains(activities[a].participants, e)
       THEN /\ activities' = [activities EXCEPT
                                ![a].participants = ListRemove(@, e)]
            /\ Finish(t, "unregister", 200, <<"Unregistered", e, "from", a>>)
       ELSE /\ UNCHANGED activities
            /\ Finish(t, "unregister", 500, "Internal Server Error")

NextConc ==
  \/ \E t \in Threads, op \in {"signup", "unregister"},
        a \in ConcActivities, e \in ConcEmails : accept(t, op, a, e)
  \/ \E t \in Threads : signup_check(t)
  \/ \E t \in Threads : signup_append(t)
  \/ \E t \in Threads : unregister_check(t)
  \/ \E t \in Threads : unregister_remove(t)

SpecConc == Init /\ [][NextConc]_vars

----------------------------------------------------------------------------
(* Properties *)

Distinct(list) == \A i, j \in 1..Len(list) : i # j => list[i] # list[j]

IndexOf(list, x) == CHOOSE i \in 1..Len(list) : list[i] = x

\* result holds the elements of input, in the order of Less (reversed when
\* descending), and elements that Less does not separate keep the order
\* they have in input.
IsStableOrdering(result, input, Less(_, _), descending) ==
  /\ Len(result) = Len(input)
  /\ \A i \in 1..Len(input) : \E j \in 1..Len(result) : result[j] = input[i]
  /\ \A i, j \in 1..Len(result) :
       i < j => IF descending THEN ~Less(result[i], result[j])
                ELSE ~Less(result[j], result[i])
  /\ \A i, j \in 1..Len(input) :
       (i < j /\ ~Less(input[i], input[j]) /\ ~Less(input[j], input[i]))
         => IndexOf(result, input[i]) < IndexOf(result, input[j])

HasTie(input, Less(_, _)) ==
  \E i, j \in 1..Len(input) :
    i < j /\ ~Less(input[i], input[j]) /\ ~Less(input[j], input[i])

\* C1: in every state reached by requests served one at a time, no email
\* appears twice in the participants of an activity.
C1_NoDuplicateParticipants ==
  \A name \in DOMAIN activities : Distinct(activities[name].participants)

\* A signup of a present email was turned away after michael had left Chess
\* Club and joined it again behind ada.
C1_Witness ==
  /\ response.op = "signup"
  /\ response.status = 400
  /\ response.args[1] = "Chess Club"
  /\ activities["Chess Club"].participants =
       <<"daniel@mergington.edu", "ada@mergington.edu",
         "michael@mergington.edu">>

\* C2: a request that ends in an error changes neither store, and the
\* requests the claim lists do end in that error: an unknown activity is a
\* 404 for signup, unregister, upload, documents and sorted participants, a
\* signup of a present email and an unregister of an absent one are a 400,
\* and a verify that matches no record is a 404.
C2_FailedRequestsChangeNothing ==
  [][ LET op == response'.op
          a == response'.args[1]
          e == response'.args[2]
          known == a \in DOMAIN activities
      IN
      /\ response'.status >= 400
           => /\ activities' = activities
              /\ activity_documents' = activity_documents
      /\ (op \in {"signup", "unregister", "upload", "documents",
                  "sorted_participants"} /\ ~known)
           => response'.status = 404
      /\ (op = "signup" /\ known /\ Contains(activities[a].participants, e))
           => response'.status = 400
      /\ (op = "unregister" /\ known
            /\ ~Contains(activities[a].participants, e))
           => response'.status = 400
      /\ (op = "verify"
            /\ \A i \in 1..Len(DocsGet(activity_documents, a)) :
                 LET doc == DocsGet(activity_documents, a)[i]
                 IN  doc.email # e \/ doc.filename # response'.args[3])
           => response'.status = 404
    ]_vars

\* A verify for Math Club, which has no documents, was answered 404 while
\* Chess Club has some, and the store has no entry for Math Club.
C2_Witness ==
  /\ response.op = "verify"
  /\ response.status = 404
  /\ response.args[1] = "Math Club"
  /\ "Math Club" \notin DOMAIN activity_documents
  /\ "Chess Club" \in DOMAIN activity_documents

\* C3: a signup of an email that is not among the participants of an
\* existing activity succeeds whatever the number of participants is, and
\* does nothing but append the email to that activity's participants.
C3_SignupAppendsRegardlessOfCapacity ==
  [][ LET a == response'.args[1]
          e == response'.args[2]
      IN  (response'.op = "signup" /\ a \in DOMAIN activities
             /\ ~Contains(activities[a].participants, e))
            => /\ response'.status = 200
               /\ activities' = [activities EXCEPT
                                   ![a].participants = Append(@, e)]
               /\ activity_documents' = activity_documents
    ]_vars

\* A signup succeeded in Math Club when it already had more participants
\* than max_participants.
C3_Witness ==
  /\ response.op = "signup"
  /\ response.status = 200
  /\ response.args[1] = "Math Club"
  /\ Len(activities["Math Club"].participants)
       >= activities["Math Club"].max_participants + 2

\* C4: an unregister of a present email removes one occurrence of it from
\* that activity's participants, keeps the others in order, and changes no
\* other activity and no document.
C4_UnregisterRemovesOne ==
  [][ LET a == response'.args[1]
          e == response'.args[2]
          old == activities[a].participants
          new == activities'[a].participants
      IN  (response'.op = "unregister" /\ a \in DOMAIN activities
             /\ Contains(old, e))
            => /\ response'.status = 200
               /\ \E i \in 1..Len(old) :
                    /\ old[i] = e
                    /\ new = SubSeq(old, 1, i - 1) \o SubSeq(old, i + 1, Len(old))
               /\ \A n \in DOMAIN activities :
                    n # a => activities'[n] = activities[n]
               /\ activities'[a] = [activities[a] EXCEPT !.participants = new]
               /\ DOMAIN activities' = DOMAIN activities
               /\ activity_documents' = activity_documents
    ]_vars

\* michael left Chess Club from the head of a list of three while his
\* documents are still stored.
C4_Witness ==
  /\ response.op = "unregister"
  /\ response.status = 200
  /\ response.args = <<"Chess Club", "michael@mergington.edu">>
  /\ activities["Chess Club"].participants =
       <<"daniel@mergington.edu", "ada@mergington.edu">>
  /\ \E i \in 1..Len(DocsGet(activity_documents, "Chess Club")) :
       activity_documents["Chess Club"][i].email = "michael@mergington.edu"

\* A verify that directly follows the upload of the document it names
UploadThenVerify ==
  /\ response.op = "upload"
  /\ response.status = 200
  /\ response'.op = "verify"
  /\ response'.args = <<response.args[1], response.args[2], response.args[3]>>

\* C5 as claimed: the verify after an upload sets verified on the record
\* just uploaded (the last of the activity's documents) and on no other.
C5_VerifyMarksUploadedRecord ==
  [][ UploadThenVerify =>
        LET a == response'.args[1]
        IN  /\ response'.status = 200
            /\ activity_documents' =
                 [activity_documents EXCEPT
                    ![a][Len(activity_documents[a])].verified = TRUE]
    ]_vars

\* C5 as amended: the verify after an upload sets verified on the earliest
\* record of the activity with that email and filename and on no other.
C5_VerifyMarksFirstMatch ==
  [][ UploadThenVerify =>
        LET a == response'.args[1]
            d == activity_documents[a]
            Match(i) == /\ d[i].email = response'.args[2]
                        /\ d[i].filename = response'.args[3]
        IN  /\ response'.status = 200
            /\ \E i \in 1..Len(d) :
                 /\ Match(i)
                 /\ \A j \in 1..(i - 1) : ~Match(j)
                 /\ activity_documents' =
                      [activity_documents EXCEPT ![a][i].verified = TRUE]
            /\ activities' = activities
    ]_vars

\* A verify succeeded where two records have its email and filename: the
\* older one is verified and the newer one is not.
C5_Witness ==
  /\ response.op = "verify"
  /\ response.status = 200
  /\ LET d == DocsGet(activity_documents, response.args[1])
     IN  /\ Len(d) = 2
         /\ d[1].email = response.args[2] /\ d[1].filename = response.args[3]
         /\ d[2].email = response.args[2] /\ d[2].filename = response.args[3]
         /\ d[1].verified
         /\ ~d[2].verified

\* C6: GET /activities/sorted with a sort_by outside name, participants and
\* score is answered with a validation error and no list of activities.
C6_InvalidSortByRejected ==
  (response.op = "sorted_activities"
     /\ response.args[1] \notin {"name", "participants", "score"})
    => response.status = 422

\* C7: both sorted views return the input reordered by the key asked for,
\* entries with equal keys in their input order, ascending and descending;
\* where keys tie, the descending result is not the ascending one reversed.
C7_StableBothDirections ==
  /\ (response.op = "sorted_activities"
        /\ response.args[1] \in {"name", "participants", "score"})
       => IsStableOrdering(
            response.body, ActivityItems(activities),
            LAMBDA x, y : ActivityKeyLess(activity_documents,
                                          response.args[1], x, y),
            response.args[2])
  /\ (response.op = "sorted_participants" /\ response.status = 200)
       => IsStableOrdering(
            response.body,
            ParticipantInfo(activities[response.args[1]].participants,
                            DocsGet(activity_documents, response.args[1])),
            LAMBDA x, y : ParticipantKeyLess(response.args[2], x, y),
            response.args[3])
  /\ \A s \in {"name", "participants", "score"} :
       HasTie(ActivityItems(activities),
              LAMBDA x, y : ActivityKeyLess(activity_documents, s, x, y))
         => SortedActivities(activities, activity_documents, s, TRUE)
              # Reverse(SortedActivities(activities, activity_documents,
                                         s, FALSE))
  /\ \A a \in ReqActivities \cap DOMAIN activities :
       \A s \in SortByParticipants :
         HasTie(ParticipantInfo(activities[a].participants,
                                DocsGet(activity_documents, a)),
                LAMBDA x, y : ParticipantKeyLess(s, x, y))
           => SortedParticipants(activities, activity_documents, a, s, TRUE)
                # Reverse(SortedParticipants(activities, activity_documents,
                                             a, s, FALSE))

\* The activities were listed by descending number of participants when
\* Chess Club has three and the eight others tie at two.
C7_Witness ==
  /\ response.op = "sorted_activities"
  /\ response.args = <<"participants", TRUE>>
  /\ Len(activities["Chess Club"].participants) = 3
  /\ response.body[1].name = "Chess Club"
  /\ response.body[2].name = "Programming Class"
  /\ response.body[9].name = "Debate Team"

\* Indices of the verified documents of an activity
VerifiedIndices(name) ==
  {i \in 1..Len(DocsGet(activity_documents, name)) :
     activity_documents[name][i].verified}

RECURSIVE ScoreTotal(_, _)
ScoreTotal(name, S) ==
  IF S = {} THEN 0
  ELSE LET i == CHOOSE k \in S : TRUE
       IN  activity_documents[name][i].score + ScoreTotal(name, S \ {i})

\* The verified average of x is below that of y; an activity without
\* verified documents counts as 0.
VerifiedAverageLess(x, y) ==
  LET vx == VerifiedIndices(x)
      vy == VerifiedIndices(y)
      nx == Cardinality(vx)
      ny == Cardinality(vy)
  IN  CASE nx > 0 /\ ny > 0 -> ScoreTotal(x, vx) * ny < ScoreTotal(y, vy) * nx
        [] nx > 0 /\ ny = 0 -> ScoreTotal(x, vx) < 0
        [] nx = 0 /\ ny > 0 -> 0 < ScoreTotal(y, vy)
        [] OTHER -> FALSE

\* C8: GET /activities/sorted with sort_by=score orders the activities by
\* the average score of their verified documents, an activity without
\* verified documents counting as 0, and activities with equal averages
\* stay in the order of the activities dict.
C8_ScoreSortUsesVerifiedAverage ==
  (response.op = "sorted_activities" /\ response.args[1] = "score")
    => /\ Len(response.body) = Len(ActivityOrder)
       /\ \A i, j \in 1..Len(response.body) :
            i < j =>
              LET x == response.body[i].name
                  y == response.body[j].name
              IN  IF response.args[2]
                    THEN ~VerifiedAverageLess(x, y)
                    ELSE ~VerifiedAverageLess(y, x)
       /\ \A i, j \in 1..Len(ActivityOrder) :
            LET x == ActivityOrder[i]
                y == ActivityOrder[j]
            IN  (i < j /\ ~VerifiedAverageLess(x, y)
                   /\ ~VerifiedAverageLess(y, x))
                  => \E k, l \in 1..Len(response.body) :
                       /\ k < l
                       /\ response.body[k].name = x
                       /\ response.body[l].name = y

\* The activities were listed by descending score when Chess Club has a
\* verified score of -1 and an unverified score of 1: Chess Club is last.
C8_Witness ==
  /\ response.op = "sorted_activities"
  /\ response.args = <<"score", TRUE>>
  /\ LET d == DocsGet(activity_documents, "Chess Club")
     IN  /\ Len(d) = 2
         /\ d[1].verified /\ d[1].score = -1
         /\ ~d[2].verified /\ d[2].score = 1
  /\ response.body[9].name = "Chess Club"
  /\ response.body[1].name = "Programming Class"

\* C9: the sorted participants of an existing activity are its participants,
\* one entry each; an entry's score is that of the earliest document of the
\* activity that has the participant's email and is verified, None when
\* there is none; sort_by=score orders None as 0.
C9_ParticipantScores ==
  (response.op = "sorted_participants" /\ response.status = 200)
    => LET a == response.args[1]
           p == activities[a].participants
           d == DocsGet(activity_documents, a)
           r == response.body
           Counts(i, email) == d[i].email = email /\ d[i].verified
           Key(x) == IF x.score = None THEN 0 ELSE x.score[1]
       IN  /\ Len(r) = Len(p)
           /\ \A k \in 1..Len(p) :
                Cardinality({i \in 1..Len(r) : r[i].email = p[k]}) = 1
           /\ \A k \in 1..Len(r) :
                IF \E i \in 1..Len(d) : Counts(i, r[k].email)
                  THEN \E i \in 1..Len(d) :
                         /\ Counts(i, r[k].email)
                         /\ \A j \in 1..(i - 1) : ~Counts(j, r[k].email)
                         /\ r[k].score = <<d[i].score>>
                  ELSE r[k].score = None
           /\ (\A i \in 1..Len(d) : ~d[i].verified)
                => \A k \in 1..Len(r) : r[k].score = None
           /\ response.args[2] = "score"
                => \A i, j \in 1..Len(r) :
                     i < j => IF response.args[3] THEN Key(r[i]) >= Key(r[j])
                              ELSE Key(r[i]) <= Key(r[j])

\* The participants of Chess Club were listed by ascending score when
\* michael's first document (-1) is unverified and his second (1) verified:
\* daniel, without documents, comes first with None and michael has 1.
C9_Witness ==
  /\ response.op = "sorted_participants"
  /\ response.args = <<"Chess Club", "score", FALSE>>
  /\ LET d == DocsGet(activity_documents, "Chess Club")
     IN  /\ Len(d) = 2
         /\ d[1].email = "michael@mergington.edu" /\ ~d[1].verified
         /\ d[1].score = -1
         /\ d[2].email = "michael@mergington.edu" /\ d[2].verified
         /\ d[2].score = 1
  /\ response.body =
       << [email |-> "daniel@mergington.edu", score |-> None],
          [email |-> "michael@mergington.edu", score |-> <<1>>] >>

\* C10: with requests in flight at the same time the handlers still act as
\* one step each: no activity gets the same email twice, and an unregister
\* never finds its email already gone after its membership test (a 500).
C10_ConcurrentHandlersAtomic ==
  /\ \A name \in DOMAIN activities : Distinct(activities[name].participants)
  /\ \A t \in Threads : threads[t].status # 500

====
